---- MODULE Spec2Model ----
(***************************************************************************)
(* Root-finding methods of rootFinder/methods: bisection_method,           *)
(* regula_falsi, newton_raphson, secant_method, incremental_search and     *)
(* graphical_method, each modelled as a call that is stepped one loop      *)
(* iteration at a time.                                                    *)
(*                                                                         *)
(* Arithmetic.  The code computes in binary floating point; the model      *)
(* computes in decimal fixed point: a number v stands for v / Scale and    *)
(* every operation rounds its exact result to the nearest multiple of      *)
(* 1/Scale (ties to even), as IEEE arithmetic rounds to the nearest        *)
(* representable value.  Tolerances are exact fractions num/den, so that   *)
(* the defaults 1e-6 and 1e-10 keep their value.  A call is computed with  *)
(* three decimal digits, or with seven where the sixth digit, to which the *)
(* methods round their roots, has to be told from the computed value.      *)
(***************************************************************************)
EXTENDS Integers, Sequences, FiniteSets, TLC

VARIABLES
    method,      \* the method called
    fn,          \* the objective it is called with
    arg,         \* its other arguments, as passed by the caller
    loc,         \* its local variables
    roots,       \* the list roots
    table_data,  \* the list table_data
    pc,          \* "call", a loop position, "done" (returned) or "raised"
    exc,         \* the exception that left the call, if one did
    log          \* the states passed through, kept when the call is to be re-run

vars == <<method, fn, arg, loc, roots, table_data, pc, exc, log>>

\* no exception
NoExc == "none"

(***************************************************************************)
(* Bounds of the model.                                                    *)
(***************************************************************************)
\* largest max_iter an enumerated call is given
MaxIter == 4
\* enumerated interval ends and starting points are the integers -MaxCoord..MaxCoord
MaxCoord == 3
\* an open method's run is followed while its iterate stays within [-XMax, XMax]
XMax == 4
\* incremental_search is followed for at most MaxScan scanned points
MaxScan == 6

\* resolutions of the fixed-point arithmetic: three and seven decimal digits
CoarseScale == 10^3
FineScale == 10^7

\* the resolution of the current call: seven digits for the objective vee,
\* whose two roots differ in the seventh
Scale == IF fn = "vee" THEN FineScale ELSE CoarseScale

\* the state of the call, and its entry in the log (none when no log is kept)
Snapshot ==
    [method |-> method, fn |-> fn, arg |-> arg, loc |-> loc, roots |-> roots,
     table_data |-> table_data, pc |-> pc, exc |-> exc]
Log == log' = IF log = <<>> THEN log ELSE Append(log, Snapshot')

\* roots kept from one call to the next, as a mutable default argument is:
\* C17 must not survive it
KeptRoots == roots

\* roots = []: the list of this call
NewRoots == <<>>

\* Python's None, and a present value
None == <<>>
Some(v) == <<v>>

\* k as a fixed-point number, in the current call and at the coarse resolution
U(k) == k * Scale
Coarse(k) == k * CoarseScale

Abs(v) == IF v < 0 THEN -v ELSE v

Sgn(v) == IF v < 0 THEN -1 ELSE IF v > 0 THEN 1 ELSE 0

\* the sign of the float product x * y, which is all the code's tests read
SgnMul(x, y) == Sgn(x) * Sgn(y)

\* n / d rounded to the nearest integer, ties to even (d > 0)
RDivPos(n, d) ==
    LET q == n \div d
        r == n % d
    IN  IF 2 * r < d THEN q
        ELSE IF 2 * r > d THEN q + 1
        ELSE IF q % 2 = 0 THEN q ELSE q + 1

\* n / d rounded to the nearest integer (d # 0)
RDiv(n, d) == IF d > 0 THEN RDivPos(n, d) ELSE RDivPos(-n, -d)

\* <<q, r>> with x * y = q * d + r and 0 <= r < d, for x, y >= 0 and d > 0,
\* by doubling, so that no intermediate value exceeds 3 * d or the quotient
RECURSIVE QuoRem(_, _, _)
QuoRem(x, y, d) ==
    IF y = 0 THEN <<0, 0>>
    ELSE LET h == QuoRem(x, y \div 2, d)
             r == 2 * h[2] + (IF y % 2 = 1 THEN x % d ELSE 0)
         IN  <<2 * h[1] + (IF y % 2 = 1 THEN x \div d ELSE 0) + r \div d, r % d>>

\* x * y / d rounded to the nearest integer, ties to even (d # 0)
MulDiv(x, y, d) ==
    LET qr == QuoRem(Abs(x), Abs(y), Abs(d))
        q == qr[1]
        r == qr[2]
    IN  Sgn(x) * Sgn(y) * Sgn(d)
          * (IF 2 * r < Abs(d) THEN q
             ELSE IF 2 * r > Abs(d) THEN q + 1
             ELSE IF q % 2 = 0 THEN q ELSE q + 1)

\* float product and quotient
FMul(x, y) == MulDiv(x, y, Scale)
FDiv(x, y) == MulDiv(x, Scale, y)

\* round(v, nd): v to nd decimal digits, ties to even
Round(v, nd) ==
    IF 10^nd >= Scale THEN v
    ELSE LET q == Scale \div (10^nd) IN RDivPos(v, q) * q

\* v < q for a value v and a tolerance q = [num, den] (den > 0)
LtRat(v, q) == v <= ((q.num * Scale - 1) \div q.den)

\* 1e-10 = 1 / (EpsInvRoot * EpsInvRoot)
EpsInvRoot == 100000

\* abs(v) < 1e-10
LtEps(v) == Abs(v) <= (((Scale - 1) \div EpsInvRoot) \div EpsInvRoot)

(***************************************************************************)
(* The objective f and its derivative df, as the callables handed to the   *)
(* methods.                                                                *)
(***************************************************************************)
\* the half distance 2e-7 of the two roots of vee
VeeGap == 2 * (FineScale \div 10^7)

\* f(x):  sq4: x^2 - 4   sq1: x^2 + 1   lin: x   cub: x^3 - 3x + 3   x3x: x^3 - x
\*        x5: x (x^2 - 1) (x^2 - 4)   vee: |x - 1| - 2e-7
\* (inv: 1/x is evaluated by Eval, which knows its singularity)
F(f, x) ==
    CASE f = "sq4" -> FMul(x, x) - U(4)
      [] f = "sq1" -> FMul(x, x) + U(1)
      [] f = "lin" -> x
      [] f = "cub" -> FMul(FMul(x, x), x) - 3 * x + U(3)
      [] f = "x3x" -> FMul(FMul(x, x), x) - x
      [] f = "x5" -> FMul(FMul(x, FMul(x, x) - U(1)), FMul(x, x) - U(4))
      [] f = "vee" -> Abs(x - U(1)) - VeeGap

\* df(x)
DF(f, x) ==
    CASE f = "sq4" -> 2 * x
      [] f = "sq1" -> 2 * x
      [] f = "lin" -> U(1)
      [] f = "cub" -> 3 * FMul(x, x) - U(3)
      [] f = "x3x" -> 3 * FMul(x, x) - U(1)

Coords == {Coarse(k) : k \in -MaxCoord..MaxCoord}

(***************************************************************************)
(* bisection_method(f, a, b, tol, max_iter)                                *)
(***************************************************************************)
BisectionInputs ==
    [a : Coords, b : Coords,
     tol : {[num |-> 1, den |-> 2], [num |-> 10, den |-> 1], [num |-> 50, den |-> 1]},
     max_iter : 0..MaxIter]

\* the guard with its comparison turned round: C1 must not survive it
BisectionRefusesInverted(fa, fb) == SgnMul(fa, fb) < 0

\* if f(a) * f(b) > 0
BisectionRefuses(fa, fb) == SgnMul(fa, fb) > 0

\* c = (a + b) / 2
Midpoint(a, b) == RDiv(a + b, 2)

\* error = abs((c - x_old) / c) * 100
BisectionError(c, x_old) == Abs(FDiv(c - x_old, c)) * 100

\* the test taking a zero product for a sign change: C19 must not survive it
FirstHalfOrZero(fa, fc) == SgnMul(fa, fc) <= 0

\* if fa * fc < 0: the root is taken to be in the first half
FirstHalf(fa, fc) == SgnMul(fa, fc) < 0

\* the break after an append left out: C16 must not survive it
AcceptedContinues == "loop"

\* roots.append(...); break in the single-bracket methods: the loop is left
\* and the method returns
Accepted == "done"

\* if error < tol and iteration > 1
BisectionConverged(error, tol, iteration) == LtRat(error, tol) /\ iteration > 1

BisectionCall ==
    /\ pc = "call"
    /\ method = "bisection"
    /\ IF BisectionRefuses(F(fn, arg.a), F(fn, arg.b))
       THEN /\ pc' = "done"
            /\ UNCHANGED <<loc, roots, table_data>>
       ELSE /\ loc' = [a |-> arg.a, b |-> arg.b, iteration |-> 1, x_old |-> None]
            /\ roots' = NewRoots
            /\ table_data' = <<>>
            /\ pc' = "loop"
    /\ UNCHANGED <<method, fn, arg, exc>>
    /\ Log

BisectionStep ==
    /\ pc = "loop"
    /\ method = "bisection"
    /\ loc.iteration <= arg.max_iter
    /\ LET a == loc.a
           b == loc.b
           c == Midpoint(a, b)
           fc == F(fn, c)
           fa == F(fn, a)
           fb == F(fn, b)
       IN  IF loc.x_old # None /\ c = 0
           THEN \* (c - x_old) / c raises ZeroDivisionError
                /\ pc' = "raised"
                /\ exc' = "ZeroDivisionError"
                /\ UNCHANGED <<loc, roots, table_data>>
           ELSE LET error == IF loc.x_old # None
                             THEN BisectionError(c, loc.x_old[1]) ELSE 0
                    first == FirstHalf(fa, fc)
                    na == IF first THEN a ELSE c
                    nb == IF first THEN c ELSE b
                    rec == [Iteration |-> loc.iteration,
                            xl |-> Round(na, 7), xr |-> Round(c, 7), xu |-> Round(nb, 7),
                            fxl |-> Round(fa, 7), fxr |-> Round(fc, 7), fxu |-> Round(fb, 7),
                            ea |-> Round(error, 7),
                            sign |-> IF SgnMul(fa, fb) < 0 THEN "< 0" ELSE "> 0",
                            Remark |-> IF first THEN "1st subinterval" ELSE "2nd subinterval"]
                IN  /\ table_data' = Append(table_data, rec)
                    /\ UNCHANGED exc
                    /\ IF BisectionConverged(error, arg.tol, loc.iteration)
                       THEN /\ roots' = Append(roots, Round(c, 7))
                            /\ loc' = [loc EXCEPT !.a = na, !.b = nb]
                            /\ pc' = Accepted
                       ELSE /\ loc' = [a |-> na, b |-> nb,
                                       iteration |-> loc.iteration + 1, x_old |-> Some(c)]
                            /\ IF LtEps(fc)
                               THEN /\ roots' = Append(roots, Round(c, 7))
                                    /\ pc' = Accepted
                               ELSE /\ UNCHANGED roots
                                    /\ pc' = "loop"
    /\ UNCHANGED <<method, fn, arg>>
    /\ Log

\* while iteration <= max_iter fails: return roots, table_data
BisectionReturn ==
    /\ pc = "loop"
    /\ method = "bisection"
    /\ loc.iteration > arg.max_iter
    /\ pc' = "done"
    /\ UNCHANGED <<method, fn, arg, loc, roots, table_data, exc>>
    /\ Log

(***************************************************************************)
(* regula_falsi(f, a, b, tol, max_iter, num_intervals)                     *)
(***************************************************************************)
\* the tolerances tried, and the default tol = 1e-6
TolMicro == [num |-> 1, den |-> 1000000]
TolTenth == [num |-> 1, den |-> 10]

RegulaFalsiInputs ==
    [a : Coords, b : Coords, tol : {TolMicro, TolTenth},
     max_iter : 0..MaxIter, num_intervals : {1, 3}]

\* regula_falsi(f, 0, 10) with the default tol, max_iter and num_intervals
RegulaFalsiDefaultCall ==
    [a |-> Coarse(0), b |-> Coarse(10), tol |-> TolMicro, max_iter |-> 100,
     num_intervals |-> 10]

\* a tolerance below the sixth digit
TolFine == [num |-> 1, den |-> FineScale]

\* regula_falsi(f, 0, 2, tol, max_iter, 2) at the fine resolution
RegulaFalsiFineInputs ==
    [a : {0}, b : {2 * FineScale}, tol : {TolFine, TolMicro},
     max_iter : 0..MaxIter, num_intervals : {2}]

\* the test letting a zero product through: C21 must not survive it
SkipsSubintervalStrict(f1, f2) == SgnMul(f1, f2) > 0

\* if f(x1) * f(x2) >= 0: continue
SkipsSubinterval(f1, f2) == SgnMul(f1, f2) >= 0

\* the false position taken from the wrong end of the bracket: C29 must not
\* survive it
FalsePositionFromRight(left, right, fl, fr) ==
    right + MulDiv(fr, right - left, fr - fl)

\* c = (left * fr - right * fl) / (fr - fl), which is left - fl * (right - left)
\* / (fr - fl). The code's value is within a few units of the last binary
\* place of it, far below one unit of the grid, so it is rounded to the grid
\* once (rounding each product to the grid would lose the digits the quotient
\* needs)
FalsePosition(left, right, fl, fr) == left - MulDiv(fl, right - left, fr - fl)

\* f"{fc:.4e}": five significant digits
Sci4(v) ==
    IF Abs(v) < 100000 THEN v
    ELSE IF Abs(v) < 1000000 THEN RDivPos(v, 10) * 10
    ELSE RDivPos(v, 100) * 100

\* the test without its abs: C22 must not survive it
RootCandidateNoAbs(fc, tol) == LtRat(fc, tol)

\* if abs(fc) < tol
RootCandidate(fc, tol) == LtRat(Abs(fc), tol)

\* if abs(right - left) < tol
SmallBracket(left, right, tol) == LtRat(Abs(right - left), tol)

\* the loop over existing_root: no accepted root lies within tol of c
IsUnique(c, rs, tol) == \A k \in 1..Len(rs) : ~LtRat(Abs(c - rs[k]), tol)

RegulaFalsiCall ==
    /\ pc = "call"
    /\ method = "regula_falsi"
    /\ IF arg.num_intervals = 0
       THEN /\ pc' = "raised"
            /\ exc' = "ZeroDivisionError"
            /\ UNCHANGED <<loc, roots, table_data>>
       ELSE /\ loc' = [subinterval_size |-> RDiv(arg.b - arg.a, arg.num_intervals),
                       i |-> 0]
            /\ roots' = NewRoots
            /\ table_data' = <<>>
            /\ pc' = "outer"
            /\ UNCHANGED exc
    /\ UNCHANGED <<method, fn, arg>>
    /\ Log

\* one pass of for i in range(num_intervals), up to the inner loop
RegulaFalsiScan ==
    /\ pc = "outer"
    /\ method = "regula_falsi"
    /\ loc.i < arg.num_intervals
    /\ LET x1 == arg.a + loc.i * loc.subinterval_size
           x2 == x1 + loc.subinterval_size
       IN  IF SkipsSubinterval(F(fn, x1), F(fn, x2))
           THEN /\ loc' = [subinterval_size |-> loc.subinterval_size, i |-> loc.i + 1]
                /\ pc' = "outer"
           ELSE /\ loc' = [subinterval_size |-> loc.subinterval_size, i |-> loc.i,
                           x1 |-> x1, x2 |-> x2, left |-> x1, right |-> x2,
                           fl |-> F(fn, x1), fr |-> F(fn, x2), iteration |-> 0]
                /\ pc' = "inner"
    /\ UNCHANGED <<method, fn, arg, roots, table_data, exc>>
    /\ Log

\* one pass of for iteration in range(max_iter)
RegulaFalsiStep ==
    /\ pc = "inner"
    /\ method = "regula_falsi"
    /\ loc.iteration < arg.max_iter
    /\ IF loc.fr - loc.fl = 0
       THEN /\ pc' = "raised"
            /\ exc' = "ZeroDivisionError"
            /\ UNCHANGED <<loc, roots, table_data>>
       ELSE LET c == FalsePosition(loc.left, loc.right, loc.fl, loc.fr)
                fc == F(fn, c)
                rec == [Subinterval |-> <<Round(loc.x1, 2), Round(loc.x2, 2)>>,
                        Iteration |-> loc.iteration + 1,
                        a |-> Round(loc.left, 6), b |-> Round(loc.right, 6),
                        c |-> Round(c, 6), fc |-> Sci4(fc)]
                toLeft == SgnMul(loc.fl, fc) < 0
                nleft == IF toLeft THEN loc.left ELSE c
                nright == IF toLeft THEN c ELSE loc.right
                nfl == IF toLeft THEN loc.fl ELSE fc
                nfr == IF toLeft THEN fc ELSE loc.fr
                next == [subinterval_size |-> loc.subinterval_size, i |-> loc.i + 1]
            IN  /\ table_data' = Append(table_data, rec)
                /\ UNCHANGED exc
                /\ IF RootCandidate(fc, arg.tol)
                   THEN /\ roots' = IF IsUnique(c, roots, arg.tol)
                                    THEN Append(roots, Round(c, 6)) ELSE roots
                        /\ loc' = next
                        /\ pc' = "outer"
                   ELSE /\ UNCHANGED roots
                        /\ IF SmallBracket(nleft, nright, arg.tol)
                           THEN /\ loc' = next
                                /\ pc' = "outer"
                           ELSE /\ loc' = [loc EXCEPT !.left = nleft, !.right = nright,
                                                      !.fl = nfl, !.fr = nfr,
                                                      !.iteration = loc.iteration + 1]
                                /\ pc' = "inner"
    /\ UNCHANGED <<method, fn, arg>>
    /\ Log

\* range(max_iter) is used up: on to the next subinterval
RegulaFalsiExhausted ==
    /\ pc = "inner"
    /\ method = "regula_falsi"
    /\ loc.iteration >= arg.max_iter
    /\ loc' = [subinterval_size |-> loc.subinterval_size, i |-> loc.i + 1]
    /\ pc' = "outer"
    /\ UNCHANGED <<method, fn, arg, roots, table_data, exc>>
    /\ Log

\* range(num_intervals) is used up: return roots, table_data
RegulaFalsiReturn ==
    /\ pc = "outer"
    /\ method = "regula_falsi"
    /\ loc.i >= arg.num_intervals
    /\ pc' = "done"
    /\ UNCHANGED <<method, fn, arg, loc, roots, table_data, exc>>
    /\ Log

(***************************************************************************)
(* newton_raphson(f, df, x0, tol, max_iter)                                *)
(***************************************************************************)
\* the default tol = 0.001 of the open methods, and wider ones
TolMilli == [num |-> 1, den |-> 1000]
TolSeventh == [num |-> 3, den |-> 20]

OpenTols == {TolMilli, TolSeventh}

NewtonInputs == [x0 : Coords, tol : OpenTols, max_iter : 0..MaxIter]

\* newton_raphson(f, df, 1) with the default tol and max_iter
NewtonDefaultCall == [x0 |-> Coarse(1), tol |-> TolMilli, max_iter |-> 100]

\* the marker put on the last record, and a record without the key "Status"
MaxIterMarker == "Max iterations reached"
NoStatus == ""

\* the guard with a threshold of 3 in place of 1e-10: C9 must not survive it
FlatDerivativeWide(dfx) == Abs(dfx) < U(3)

\* if abs(dfx) < 1e-10
FlatDerivative(dfx) == LtEps(dfx)

\* x_new = x - fx / dfx
NewtonUpdate(x, fx, dfx) == x - FDiv(fx, dfx)

\* the error taken as 1 when x_new is 0: C30 must not survive it
RelativeErrorFarAtZero(x_new, x) ==
    IF x_new # 0 THEN Abs(FDiv(x_new - x, x_new)) ELSE CoarseScale

\* ea = abs((x_new - x) / x_new) if x_new != 0 else 0
RelativeError(x_new, x) == IF x_new # 0 THEN Abs(FDiv(x_new - x, x_new)) ELSE 0

\* table_data[-1]["Status"] = "Max iterations reached"
MarkLast(td) == [td EXCEPT ![Len(td)].Status = MaxIterMarker]

\* the test with its comparison turned round: C18 must not survive it
NewtonConvergedInverted(ea, tol) == ~LtRat(ea, tol)

\* if ea < tol
NewtonConverged(ea, tol) == LtRat(ea, tol)

\* the marker test holding in the earlier iterations too: C23 must not
\* survive it
LastIterationOrEarlier(iteration, max_iter) == iteration <= max_iter - 1

\* the marker test off by one: C7 must not survive it
LastIterationOffByOne(iteration, max_iter) == iteration = max_iter

\* if iteration == max_iter - 1
LastIteration(iteration, max_iter) == iteration = max_iter - 1

NewtonCall ==
    /\ pc = "call"
    /\ method = "newton_raphson"
    /\ loc' = [x |-> arg.x0, iteration |-> 0]
    /\ roots' = NewRoots
    /\ table_data' = <<>>
    /\ pc' = "loop"
    /\ UNCHANGED <<method, fn, arg, exc>>
    /\ Log

\* one pass of for iteration in range(max_iter)
NewtonStep ==
    /\ pc = "loop"
    /\ method = "newton_raphson"
    /\ loc.iteration < arg.max_iter
    /\ LET x == loc.x
           fx == F(fn, x)
           dfx == DF(fn, x)
       IN  IF FlatDerivative(dfx)
           THEN /\ table_data' = Append(table_data,
                                   [No |-> loc.iteration, xi |-> Round(x, 6), ea |-> None,
                                    fxi |-> Round(fx, 6), dfxi |-> Round(dfx, 6),
                                    Status |-> NoStatus])
                /\ pc' = "done"
                /\ UNCHANGED <<loc, roots>>
           ELSE LET x_new == NewtonUpdate(x, fx, dfx)
                    ea == RelativeError(x_new, x)
                    rec == [No |-> loc.iteration, xi |-> Round(x, 6),
                            ea |-> Some(Round(ea * 100, 3)),
                            fxi |-> Round(fx, 6), dfxi |-> Round(dfx, 6),
                            Status |-> NoStatus]
                    td == Append(table_data, rec)
                IN  /\ Abs(x_new) <= U(XMax)   \* the run is followed no further
                    /\ IF NewtonConverged(ea, arg.tol)
                       THEN /\ roots' = Append(roots, Round(x_new, 6))
                            /\ table_data' = td
                            /\ pc' = Accepted
                            /\ UNCHANGED loc
                       ELSE /\ loc' = [x |-> x_new, iteration |-> loc.iteration + 1]
                            /\ table_data' = IF LastIteration(loc.iteration, arg.max_iter)
                                             THEN MarkLast(td) ELSE td
                            /\ pc' = "loop"
                            /\ UNCHANGED roots
    /\ UNCHANGED <<method, fn, arg, exc>>
    /\ Log

\* range(max_iter) is used up: return roots, table_data
NewtonReturn ==
    /\ pc = "loop"
    /\ method = "newton_raphson"
    /\ loc.iteration >= arg.max_iter
    /\ pc' = "done"
    /\ UNCHANGED <<method, fn, arg, loc, roots, table_data, exc>>
    /\ Log

(***************************************************************************)
(* secant_method(f, x0, x1, tol, max_iter)                                 *)
(***************************************************************************)
SecantInputs == [x0 : Coords, x1 : Coords, tol : OpenTols, max_iter : 0..MaxIter]

\* the guard with a threshold of 1 in place of 1e-10: C8 must not survive it
FlatSecantWide(f_curr, f_prev) == Abs(f_curr - f_prev) < U(1)

\* if abs(f_curr - f_prev) < 1e-10
FlatSecant(f_curr, f_prev) == LtEps(f_curr - f_prev)

\* xi_next = xi - f_curr * (xi - xi_prev) / (f_curr - f_prev)
SecantUpdate(xi, xi_prev, f_curr, f_prev) ==
    xi - FDiv(FMul(f_curr, xi - xi_prev), f_curr - f_prev)

\* acceptance on the error test alone, as in newton_raphson: C10 must not
\* survive it
SecantConvergedErrorOnly(ea, f_next, tol) == LtRat(ea, tol)

\* if ea < tol and abs(f(xi_next)) < tol
SecantConverged(ea, f_next, tol) == LtRat(ea, tol) /\ LtRat(Abs(f_next), tol)

SecantCall ==
    /\ pc = "call"
    /\ method = "secant_method"
    /\ loc' = [xi_prev |-> arg.x0, xi |-> arg.x1, iteration |-> 0]
    /\ roots' = NewRoots
    /\ table_data' = <<>>
    /\ pc' = "loop"
    /\ UNCHANGED <<method, fn, arg, exc>>
    /\ Log

\* one pass of for iteration in range(max_iter)
SecantStep ==
    /\ pc = "loop"
    /\ method = "secant_method"
    /\ loc.iteration < arg.max_iter
    /\ LET xi_prev == loc.xi_prev
           xi == loc.xi
           f_prev == F(fn, xi_prev)
           f_curr == F(fn, xi)
       IN  IF FlatSecant(f_curr, f_prev)
           THEN /\ pc' = "done"
                /\ UNCHANGED <<loc, roots, table_data>>
           ELSE LET xi_next == SecantUpdate(xi, xi_prev, f_curr, f_prev)
                    ea == RelativeError(xi_next, xi)
                    f_next == F(fn, xi_next)
                    rec == [Iteration |-> loc.iteration + 1,
                            xi_prev |-> Round(xi_prev, 6), xi |-> Round(xi, 6),
                            xi_next |-> Round(xi_next, 6), ea |-> Round(ea * 100, 3),
                            f_prev |-> Round(f_prev, 6), f_curr |-> Round(f_curr, 6),
                            f_next |-> Round(f_next, 6), Status |-> NoStatus]
                    td == Append(table_data, rec)
                IN  /\ Abs(xi_next) <= U(XMax)   \* the run is followed no further
                    /\ IF SecantConverged(ea, f_next, arg.tol)
                       THEN /\ roots' = Append(roots, Round(xi_next, 6))
                            /\ table_data' = td
                            /\ pc' = Accepted
                            /\ UNCHANGED loc
                       ELSE /\ loc' = [xi_prev |-> xi, xi |-> xi_next,
                                       iteration |-> loc.iteration + 1]
                            /\ table_data' = IF LastIteration(loc.iteration, arg.max_iter)
                                             THEN MarkLast(td) ELSE td
                            /\ pc' = "loop"
                            /\ UNCHANGED roots
    /\ UNCHANGED <<method, fn, arg, exc>>
    /\ Log

\* range(max_iter) is used up: return roots, table_data
SecantReturn ==
    /\ pc = "loop"
    /\ method = "secant_method"
    /\ loc.iteration >= arg.max_iter
    /\ pc' = "done"
    /\ UNCHANGED <<method, fn, arg, loc, roots, table_data, exc>>
    /\ Log

(***************************************************************************)
(* incremental_search(f, a, b, step)                                       *)
(***************************************************************************)
\* the steps tried: -1, 0, 0.5 and 1
Steps == {Coarse(-1), 0, CoarseScale \div 2, Coarse(1)}

\* numpy: whether the caller's a, b, step are numpy floats (f(0) of 1/x is
\* then inf) or Python floats (it then raises ZeroDivisionError)
\* (a also starts at -0.5, from where a unit step strides over 0)
IncrementalInputs ==
    [a : Coords \cup {-(CoarseScale \div 2)}, b : Coords, step : Steps, numpy : BOOLEAN]

\* what evaluating f(x) does: a finite value, an infinite one, or an exception
Eval(f, x, numpy) ==
    IF f = "inv"
    THEN IF x = 0
         THEN IF numpy THEN [k |-> "inf"] ELSE [k |-> "raise"]
         ELSE [k |-> "finite", v |-> FDiv(U(1), x)]
    ELSE [k |-> "finite", v |-> F(f, x)]

RemarkUndefined == "Function is undefined or infinite at this point"
RemarkNoRoot == "No root in this interval"
RemarkRoot == "A root exists in this interval"
RemarkFailed == "Function evaluation failed at this point"
TextUndefined == "Undefined or Infinite"
TextFailed == "Unable to evaluate function"

\* the loop test leaving out the point x = b: C12 must not survive it
ScanContinuesStrict(x, b) == x < b

\* while x <= b
ScanContinues(x, b) == x <= b

\* the root estimate of a step with a sign change
\* the estimate with the correction added instead of subtracted: C26 must
\* not survive it
IncrementalRootWrongSign(x, x_next, step, fx, fx_next) ==
    LET denominator == fx_next - fx
    IN  IF LtEps(denominator)
        THEN RDiv(x + x_next, 2)
        ELSE x + MulDiv(step, fx, denominator)

\* step * fx / denominator is rounded to the grid once: the code's product and
\* quotient each carry a relative error of 2^-53, far below one unit of the grid
IncrementalRoot(x, x_next, step, fx, fx_next) ==
    LET denominator == fx_next - fx
    IN  IF LtEps(denominator)
        THEN RDiv(x + x_next, 2)
        ELSE x - MulDiv(step, fx, denominator)

IncrementalCall ==
    /\ pc = "call"
    /\ method = "incremental_search"
    /\ loc' = [x |-> arg.a, iteration |-> 1]
    /\ roots' = NewRoots
    /\ table_data' = <<>>
    /\ pc' = "loop"
    /\ UNCHANGED <<method, fn, arg, exc>>
    /\ Log

\* one pass of while x <= b
IncrementalStep ==
    /\ pc = "loop"
    /\ method = "incremental_search"
    /\ ScanContinues(loc.x, arg.b)
    /\ loc.iteration <= MaxScan   \* the scan is followed no further
    /\ Abs(loc.x) <= U(XMax)
    /\ LET x == loc.x
           x_next == x + arg.step
           efx == Eval(fn, x, arg.numpy)
           efn == Eval(fn, x_next, arg.numpy)
       IN  /\ IF efx.k = "raise" \/ efn.k = "raise"
              THEN /\ table_data' = Append(table_data,
                          [i |-> loc.iteration, xi |-> Round(x, 3), fxi |-> TextFailed,
                           product |-> TextFailed, Remark |-> RemarkFailed])
                   /\ UNCHANGED roots
              ELSE IF efx.k # "finite" \/ efn.k # "finite"
              THEN /\ table_data' = Append(table_data,
                          [i |-> loc.iteration, xi |-> Round(x, 3),
                           fxi |-> IF efx.k = "finite"
                                   THEN Some(Round(efx.v, 6)) ELSE TextUndefined,
                           product |-> TextUndefined, Remark |-> RemarkUndefined])
                   /\ UNCHANGED roots
              ELSE LET fx == efx.v
                       fx_next == efn.v
                       product == FMul(fx, fx_next)
                   IN  /\ table_data' = Append(table_data,
                              [i |-> loc.iteration, xi |-> Round(x, 3),
                               fxi |-> Some(Round(fx, 6)),
                               product |-> Some(Round(product, 6)),
                               Remark |-> IF SgnMul(fx, fx_next) > 0
                                          THEN RemarkNoRoot ELSE RemarkRoot])
                       /\ roots' = IF SgnMul(fx, fx_next) <= 0
                                   THEN Append(roots,
                                          Round(IncrementalRoot(x, x_next, arg.step,
                                                                fx, fx_next), 6))
                                   ELSE roots
           /\ loc' = [x |-> x_next, iteration |-> loc.iteration + 1]
    /\ UNCHANGED <<method, fn, arg, pc, exc>>
    /\ Log

\* x > b: return roots, table_data
IncrementalReturn ==
    /\ pc = "loop"
    /\ method = "incremental_search"
    /\ ~ScanContinues(loc.x, arg.b)
    /\ pc' = "done"
    /\ UNCHANGED <<method, fn, arg, loc, roots, table_data, exc>>
    /\ Log

(***************************************************************************)
(* graphical_method(f, x_min, x_max, step)                                 *)
(***************************************************************************)
\* the steps tried: -1, 0, 0.4, 0.6, 1 and 1.5
GridSteps ==
    {Coarse(-1), 0, 2 * (CoarseScale \div 5), 3 * (CoarseScale \div 5), Coarse(1),
     3 * (CoarseScale \div 2)}

GraphicalInputs == [x_min : Coords, x_max : Coords, step : GridSteps]

\* float nan, which no computation of the model yields as a number
NaN == -(2^30)

\* the least integer >= n / d (d # 0)
CeilDiv(n, d) == IF d > 0 THEN -((-n) \div d) ELSE -(n \div (-d))

\* np.arange(start, stop, step): start + i * step for i < ceil((stop - start) / step)
Arange(start, stop, step) ==
    LET n == CeilDiv(stop - start, step)
    IN  [i \in 1..(IF n > 0 THEN n ELSE 0) |-> start + (i - 1) * step]

\* x_vals = np.arange(x_min, x_max + step/2, step)
XVals(x_min, x_max, step) == Arange(x_min, x_max + RDiv(step, 2), step)

\* the interpolated root between samples (x0, y0) and (x1, y1); 0/0 is nan.
\* The product and the quotient of the code each carry a relative error of
\* 2^-53, far below one unit of the grid, so y0 * (x1 - x0) / (y1 - y0) is
\* rounded to the grid once
Interpolate(x0, y0, x1, y1) ==
    IF y1 - y0 = 0 THEN NaN ELSE x0 - MulDiv(y0, x1 - x0, y1 - y0)

RECURSIVE SumSeq(_)
SumSeq(q) == IF q = <<>> THEN 0 ELSE q[1] + SumSeq(Tail(q))

\* np.diff
Diff(q) == [k \in 1..(Len(q) - 1) |-> q[k + 1] - q[k]]

\* std_interval < avg_interval * 0.1, for the gaps d, n of them:
\* std^2 = (n * sum(d^2) - sum(d)^2) / n^2 and avg^2 = sum(d)^2 / n^2
RegularGaps(d) ==
    LET sum == SumSeq(d)
        squares == SumSeq([k \in 1..Len(d) |-> d[k] * d[k]])
    IN  100 * (Len(d) * squares - sum * sum) < sum * sum

\* the test content with four crossings: C24 must not survive it
IsPeriodicFromFour(zero_crossings) ==
    Len(zero_crossings) > 3 /\ RegularGaps(Diff(zero_crossings))

\* if len(zero_crossings) > 4 and the gaps are regular
IsPeriodic(zero_crossings) ==
    Len(zero_crossings) > 4 /\ RegularGaps(Diff(zero_crossings))

\* period = avg_interval * step
Period(zero_crossings, step) ==
    LET d == Diff(zero_crossings)
    IN  FMul(RDiv(SumSeq(d) * Scale, Len(d)), step)

\* the guard refusing a zero step only: C13 must not survive it
InvalidStepZeroOnly(step) == step = 0

\* if step <= 0
InvalidStep(step) == step <= 0

GraphicalCall ==
    /\ pc = "call"
    /\ method = "graphical_method"
    /\ IF InvalidStep(arg.step)
       THEN /\ pc' = "raised"
            /\ exc' = "ValueError"
            /\ UNCHANGED <<loc, roots, table_data>>
       ELSE LET x_vals == XVals(arg.x_min, arg.x_max, arg.step)
            IN  /\ loc' = [x_vals |-> x_vals,
                           y_vals |-> [k \in 1..Len(x_vals) |-> F(fn, x_vals[k])],
                           i |-> 0, zero_crossings |-> <<>>,
                           is_periodic |-> FALSE, period |-> None]
                /\ roots' = NewRoots
                /\ table_data' = <<>>
                /\ pc' = "loop"
                /\ UNCHANGED exc
    /\ UNCHANGED <<method, fn, arg>>
    /\ Log

\* the test on strict sign changes only: C25 must not survive it
CrossingStrict(y0, y1) == SgnMul(y0, y1) < 0

\* if y_vals[i-1] * y_vals[i] <= 0
Crossing(y0, y1) == SgnMul(y0, y1) <= 0

\* one pass of for i, x in enumerate(x_vals); sample i is x_vals[i + 1] here
GraphicalStep ==
    /\ pc = "loop"
    /\ method = "graphical_method"
    /\ loc.i < Len(loc.x_vals)
    /\ LET i == loc.i
           x == loc.x_vals[i + 1]
           fx == F(fn, x)
           crossing == i > 0 /\ Crossing(loc.y_vals[i], loc.y_vals[i + 1])
       IN  /\ table_data' = Append(table_data, [x |-> Round(x, 3), fx |-> Round(fx, 8)])
           /\ roots' = IF crossing
                       THEN Append(roots,
                              Round(Interpolate(loc.x_vals[i], loc.y_vals[i],
                                                loc.x_vals[i + 1], loc.y_vals[i + 1]), 6))
                       ELSE roots
           /\ loc' = [loc EXCEPT !.i = i + 1,
                                 !.zero_crossings = IF crossing THEN Append(@, i) ELSE @]
    /\ UNCHANGED <<method, fn, arg, pc, exc>>
    /\ Log

\* after the loop: the periodicity analysis and the return
GraphicalReturn ==
    /\ pc = "loop"
    /\ method = "graphical_method"
    /\ loc.i >= Len(loc.x_vals)
    /\ IF IsPeriodic(loc.zero_crossings)
       THEN LET period == Period(loc.zero_crossings, arg.step)
            IN  /\ loc' = [loc EXCEPT !.is_periodic = TRUE, !.period = Some(period)]
                /\ table_data' = Append(table_data,
                                        [x |-> "Period", fx |-> Round(period, 6)])
       ELSE UNCHANGED <<loc, table_data>>
    /\ pc' = "done"
    /\ UNCHANGED <<method, fn, arg, roots, exc>>
    /\ Log

(***************************************************************************)
(* The calls the model follows, and the specification.                     *)
(***************************************************************************)
Calls ==
    [method : {"bisection"}, fn : {"sq4", "sq1", "lin", "cub"}, arg : BisectionInputs]
    \cup [method : {"regula_falsi"}, fn : {"sq4", "lin", "cub"}, arg : RegulaFalsiInputs]
    \cup [method : {"regula_falsi"}, fn : {"sq4"}, arg : {RegulaFalsiDefaultCall}]
    \cup [method : {"regula_falsi"}, fn : {"vee"}, arg : RegulaFalsiFineInputs]
    \cup [method : {"newton_raphson"}, fn : {"sq4", "sq1", "lin", "cub"}, arg : NewtonInputs]
    \cup [method : {"newton_raphson"}, fn : {"sq4"}, arg : {NewtonDefaultCall}]
    \cup [method : {"secant_method"}, fn : {"sq4", "sq1", "lin", "cub"}, arg : SecantInputs]
    \cup [method : {"incremental_search"}, fn : {"sq4", "lin", "inv"},
          arg : IncrementalInputs]
    \cup [method : {"graphical_method"}, fn : {"sq4", "lin", "x3x", "x5"},
          arg : GraphicalInputs]

\* a method is about to be called
InitCall ==
    /\ \E call \in Calls :
          /\ method = call.method
          /\ fn = call.fn
          /\ arg = call.arg
    /\ loc = <<>>
    /\ roots = <<>>
    /\ table_data = <<>>
    /\ pc = "call"
    /\ exc = NoExc

Init ==
    /\ InitCall
    /\ log = <<>>

Next ==
    \/ BisectionCall
    \/ BisectionStep
    \/ BisectionReturn
    \/ RegulaFalsiCall
    \/ RegulaFalsiScan
    \/ RegulaFalsiStep
    \/ RegulaFalsiExhausted
    \/ RegulaFalsiReturn
    \/ NewtonCall
    \/ NewtonStep
    \/ NewtonReturn
    \/ SecantCall
    \/ SecantStep
    \/ SecantReturn
    \/ IncrementalCall
    \/ IncrementalStep
    \/ IncrementalReturn
    \/ GraphicalCall
    \/ GraphicalStep
    \/ GraphicalReturn

Spec == Init /\ [][Next]_vars

(***************************************************************************)
(* The same call made twice: when the first call has ended the caller      *)
(* makes it again with the arguments it passed before.  The caller still   *)
(* holds the lists the first call returned.                                *)
(***************************************************************************)
\* the log entries at which a call starts
CallStarts == {k \in DOMAIN log : log[k].pc = "call"}

Rerun ==
    /\ pc \in {"done", "raised"}
    /\ Cardinality(CallStarts) = 1
    /\ pc' = "call"
    /\ loc' = <<>>
    /\ exc' = NoExc
    /\ UNCHANGED <<method, fn, arg, roots, table_data>>
    /\ Log

InitTwo ==
    /\ InitCall
    /\ log = <<Snapshot>>

NextTwo ==
    \/ Next
    \/ Rerun

TwoRuns == InitTwo /\ [][NextTwo]_vars

(***************************************************************************)
(* Properties.                                                             *)
(***************************************************************************)
\* the call has ended, by returning or by raising
Ended == pc \in {"done", "raised"}

\* C1: bisection_method called with f(a)*f(b) > 0 returns ([], []) at once:
\* from the call on it is in the returned state with no root, no record and
\* no loop variable ever initialised (no iteration performed).
C1_RefusedBracketReturnsEmpty ==
    (method = "bisection" /\ pc # "call"
        /\ Sgn(F(fn, arg.a)) * Sgn(F(fn, arg.b)) > 0)
    => (pc = "done" /\ exc = NoExc /\ roots = <<>> /\ table_data = <<>> /\ loc = <<>>)

C1_Witness ==
    /\ method = "bisection" /\ fn = "sq1" /\ arg.a = U(-1) /\ arg.b = U(1)
    /\ pc = "done" /\ roots = <<>> /\ table_data = <<>>

\* C2 (as claimed): for a bracket with f(a)*f(b) < 0 bisection_method returns,
\* with exactly one root, or with no root only after max_iter iterations, and
\* with at most max_iter records.
C2_BracketReturnsOneRoot ==
    (method = "bisection" /\ pc \notin {"call", "loop"}
        /\ Sgn(F(fn, arg.a)) * Sgn(F(fn, arg.b)) < 0)
    => /\ pc = "done"
       /\ Len(table_data) <= arg.max_iter
       /\ \/ Len(roots) = 1
          \/ roots = <<>> /\ Len(table_data) = arg.max_iter

\* C3 (as claimed): regula_falsi on x^2 - 4 over [0, 10] with the defaults
\* returns a root list holding a value within tol of 2.0.
C3_DefaultCallFindsTwo ==
    (method = "regula_falsi" /\ fn = "sq4" /\ arg = RegulaFalsiDefaultCall /\ pc = "done")
    => \E k \in 1..Len(roots) : LtRat(Abs(roots[k] - U(2)), arg.tol)

\* C4 (as claimed): for x_min <= x_max and step > 0 every sample of
\* graphical_method lies in [x_min, x_max] and the last sample is x_max.
C4_GridClosedOnXMax ==
    (method = "graphical_method" /\ pc = "loop"
        /\ arg.step > 0 /\ arg.x_min <= arg.x_max)
    => /\ \A k \in 1..Len(loc.x_vals) :
            arg.x_min <= loc.x_vals[k] /\ loc.x_vals[k] <= arg.x_max
       /\ Len(loc.x_vals) >= 1
       /\ loc.x_vals[Len(loc.x_vals)] = arg.x_max

\* C5 (as claimed): incremental_search with step <= 0 ends before any
\* iteration: no record is ever appended and no root reported.
C5_BadStepFailsFast ==
    (method = "incremental_search" /\ arg.step <= 0)
    => (table_data = <<>> /\ roots = <<>>)

\* C6 (as claimed): bisection_method, regula_falsi and incremental_search
\* called with a >= b never append an iteration record.
C6_DegenerateBracketFailsFast ==
    (method \in {"bisection", "regula_falsi", "incremental_search"} /\ arg.a >= arg.b)
    => (table_data = <<>> /\ roots = <<>>)

\* a record carries the max-iterations marker
HasMarker(rec) == "Status" \in DOMAIN rec /\ rec.Status = MaxIterMarker

Last(q) == q[Len(q)]

\* the call has returned after using up its max_iter (>= 1) iterations with
\* no convergence test and no singularity guard firing; for regula_falsi, the
\* inner loop of the current subinterval is at that point
BudgetUsedUp ==
    \/ method = "bisection" /\ pc = "done" /\ loc # <<>> /\ roots = <<>>
         /\ arg.max_iter >= 1
    \/ method \in {"newton_raphson", "secant_method"} /\ pc = "done"
         /\ loc.iteration = arg.max_iter /\ arg.max_iter >= 1
    \/ method = "regula_falsi" /\ pc = "inner"
         /\ loc.iteration >= arg.max_iter /\ arg.max_iter >= 1

\* C7 (as claimed): whenever bisection_method, regula_falsi (per subinterval),
\* newton_raphson or secant_method uses up max_iter without converging, the
\* last record of the trace carries the max-iterations marker.
C7_ExhaustedTraceIsMarked ==
    BudgetUsedUp => (exc = NoExc /\ table_data # <<>> /\ HasMarker(Last(table_data)))

\* C7 (amended): newton_raphson and secant_method, having completed max_iter
\* >= 1 iterations with neither convergence nor the singularity guard, return
\* normally with max_iter records, the last one marked "Max iterations
\* reached", and no root; bisection_method and regula_falsi return the full
\* trace too (max_iter records of the run, resp. of the subinterval) but none
\* of their records ever carries a marker.
C7_OnlyOpenMethodsMarkExhaustion ==
    /\ (BudgetUsedUp /\ method \in {"newton_raphson", "secant_method"})
       => /\ exc = NoExc
          /\ roots = <<>>
          /\ Len(table_data) = arg.max_iter
          /\ HasMarker(Last(table_data))
          /\ \A k \in 1..(Len(table_data) - 1) : ~HasMarker(table_data[k])
    /\ (BudgetUsedUp /\ method = "bisection")
       => (exc = NoExc /\ Len(table_data) = arg.max_iter)
    /\ (BudgetUsedUp /\ method = "regula_falsi")
       => (Len(table_data) >= arg.max_iter /\ Last(table_data).Iteration = arg.max_iter)
    /\ method \in {"bisection", "regula_falsi"}
       => \A k \in 1..Len(table_data) : ~HasMarker(table_data[k])

C7_Witness ==
    /\ BudgetUsedUp
    /\ method = "secant_method"
    /\ arg.max_iter >= 2
    /\ HasMarker(Last(table_data))

\* secant_method has stopped early with no root: the near-zero-slope break
SecantSlopeStop ==
    /\ method = "secant_method"
    /\ pc = "done"
    /\ roots = <<>>
    /\ loc.iteration < arg.max_iter

\* C8 (as claimed): on a near-zero slope secant_method terminates early
\* without raising and without a root, and the returned trace records the
\* singularity in a diagnostic field or remark of its last record.
C8_SlopeStopIsRecorded ==
    SecantSlopeStop
    => /\ exc = NoExc
       /\ table_data # <<>>
       /\ \/ Last(table_data).Status # NoStatus
          \/ Last(table_data).Iteration = loc.iteration + 1

\* C8 (amended): secant_method stops early without a root exactly on a
\* near-zero slope |f(x_i) - f(x_{i-1})| < 1e-10; it then returns normally,
\* appends no record for that iteration, and the trace holds just the records
\* of the earlier iterations, none carrying a diagnostic (an empty trace when
\* the first iteration meets it).
C8_SlopeStopLeavesNoRecord ==
    SecantSlopeStop
    => /\ LtEps(F(fn, loc.xi) - F(fn, loc.xi_prev))
       /\ exc = NoExc
       /\ Len(table_data) = loc.iteration
       /\ \A k \in 1..Len(table_data) :
            table_data[k].Status = NoStatus /\ table_data[k].Iteration = k

C8_Witness ==
    /\ SecantSlopeStop
    /\ Len(table_data) >= 1

\* newton_raphson has stopped early with no root: the flat-derivative break
NewtonStallStop ==
    /\ method = "newton_raphson"
    /\ pc = "done"
    /\ roots = <<>>
    /\ loc.iteration < arg.max_iter

\* C9: newton_raphson stops early without a root exactly at an iterate x
\* with |f'(x)| < 1e-10; it then has appended one stall record for x, with
\* ea None, after the ordinary records of the earlier iterations, and has
\* not raised.  From an x0 with f'(x0) = 0 (max_iter >= 1) it returns with
\* that single record and no root.
C9_FlatDerivativeStalls ==
    /\ NewtonStallStop
       => /\ LtEps(DF(fn, loc.x))
          /\ exc = NoExc
          /\ Len(table_data) = loc.iteration + 1
          /\ Last(table_data).ea = None
          /\ Last(table_data).xi = Round(loc.x, 6)
          /\ \A k \in 1..(Len(table_data) - 1) : table_data[k].ea # None
    /\ (method = "newton_raphson" /\ pc = "done"
          /\ arg.max_iter >= 1 /\ DF(fn, arg.x0) = 0)
       => /\ exc = NoExc
          /\ roots = <<>>
          /\ Len(table_data) = 1
          /\ table_data[1].ea = None
    /\ (method = "newton_raphson" /\ pc = "loop")
       => \A k \in 1..Len(table_data) : table_data[k].ea # None

C9_Witness ==
    /\ NewtonStallStop
    /\ Len(table_data) = 2
    /\ Last(table_data).ea = None

\* the dual acceptance test of secant_method, on the iteration of a record
\* (at the model's resolution round(.., 6) keeps xi and xi+1 as computed)
DualTest(rec) ==
    /\ LtRat(RelativeError(rec.xi_next, rec.xi), arg.tol)
    /\ LtRat(Abs(F(fn, rec.xi_next)), arg.tol)

\* exactly one of the two tests
SingleTest(rec) ==
    LtRat(RelativeError(rec.xi_next, rec.xi), arg.tol)
        # LtRat(Abs(F(fn, rec.xi_next)), arg.tol)

\* C10: secant_method accepts x_{i+1} exactly when ea < tol and
\* |f(x_{i+1})| < tol hold in the same iteration, and then stops: a record
\* passes the dual test only if it is the last one of a returned run whose
\* single root is its x_{i+1}, and a run with a root ends on such a record.
C10_DualTestAcceptsAndStops ==
    method = "secant_method"
    => /\ \A k \in 1..Len(table_data) :
            DualTest(table_data[k])
            => (k = Len(table_data) /\ pc = "done"
                /\ roots = <<table_data[k].xi_next>>)
       /\ roots # <<>>
          => (pc = "done" /\ table_data # <<>> /\ DualTest(Last(table_data)))

C10_Witness ==
    /\ method = "secant_method"
    /\ pc = "done"
    /\ Len(roots) = 1
    /\ Len(table_data) >= 2
    /\ \E k \in 1..(Len(table_data) - 1) : SingleTest(table_data[k])

\* the step [xi, xi + step] of a record of incremental_search holds x = 0
StraddlesZero(rec) == rec.xi <= 0 /\ 0 <= rec.xi + arg.step

\* C11 (as claimed): incremental_search on 1/x with step > 0 never raises, every
\* record whose step holds the singularity x = 0 carries the
\* undefined-or-infinite remark, and no root is reported.
C11_SingularityStepIsUndefined ==
    (method = "incremental_search" /\ fn = "inv" /\ arg.step > 0)
    => /\ exc = NoExc
       /\ roots = <<>>
       /\ \A k \in 1..Len(table_data) :
            StraddlesZero(table_data[k]) => table_data[k].Remark = RemarkUndefined

\* how many of the points a, a + step, a + 2 step, ... are <= b (step > 0)
ScanPoints(a, b, step) == IF a <= b THEN (b - a) \div step + 1 ELSE 0

\* C12: for step > 0 incremental_search never raises and appends exactly one
\* record per scanned point, whatever the evaluation does: while it runs, the
\* records are those of the points a, a + step, ... before x, numbered i = 1,
\* 2, ... in order, all with xi <= b; when it returns, their number is the
\* number of points a + k step <= b.
C12_OneRecordPerPoint ==
    (method = "incremental_search" /\ pc # "call" /\ arg.step > 0)
    => /\ exc = NoExc
       /\ Len(table_data) = loc.iteration - 1
       /\ loc.x = arg.a + Len(table_data) * arg.step
       /\ \A k \in 1..Len(table_data) :
            /\ table_data[k].i = k
            /\ table_data[k].xi = arg.a + (k - 1) * arg.step
            /\ table_data[k].xi <= arg.b
       /\ pc = "done" => Len(table_data) = ScanPoints(arg.a, arg.b, arg.step)

C12_Witness ==
    /\ method = "incremental_search"
    /\ pc = "done"
    /\ arg.step > 0
    /\ Len(table_data) >= 4
    /\ \E k \in 1..Len(table_data) : table_data[k].Remark = RemarkFailed
    /\ \E k \in 1..Len(table_data) : table_data[k].Remark = RemarkNoRoot

\* C13: graphical_method called with step <= 0 raises ValueError before it
\* samples anything: once called it is in the raised state with x_vals and
\* y_vals never computed (f not evaluated), no root and no record; and it
\* raises for no other step.
C13_BadGridStepRaises ==
    /\ (method = "graphical_method" /\ pc # "call" /\ arg.step <= 0)
       => /\ pc = "raised"
          /\ exc = "ValueError"
          /\ loc = <<>>
          /\ roots = <<>>
          /\ table_data = <<>>
    /\ (method = "graphical_method" /\ arg.step > 0) => exc = NoExc

C13_Witness ==
    /\ method = "graphical_method"
    /\ arg.step < 0
    /\ arg.x_min > arg.x_max
    /\ pc = "raised"
    /\ exc = "ValueError"

\* C15 (as claimed): in regula_falsi no two roots of the list differ by less
\* than tol, whatever tol > 0 is; in particular no value is repeated.
C15_RootsAreTolApart ==
    method = "regula_falsi"
    => \A j, k \in 1..Len(roots) :
         j < k => ~LtRat(Abs(roots[j] - roots[k]), arg.tol)

FirstRunLength ==
    IF Cardinality(CallStarts) = 2 THEN (CHOOSE k \in CallStarts : k > 1) - 1 ELSE 0

\* what the call has computed at an entry of the log
Computed(e) ==
    [loc |-> e.loc, roots |-> e.roots, table_data |-> e.table_data,
     pc |-> e.pc, exc |-> e.exc]

C18_NewtonFindsTwo ==
    (method = "newton_raphson" /\ fn = "sq4" /\ arg = NewtonDefaultCall)
    => /\ exc = NoExc
       /\ Len(table_data) < 10
       /\ pc = "done"
          => (Len(roots) = 1 /\ LtRat(Abs(roots[1] - U(2)), arg.tol))

C18_Witness ==
    /\ method = "newton_raphson"
    /\ fn = "sq4"
    /\ arg = NewtonDefaultCall
    /\ pc = "done"
    /\ roots = <<U(2)>>
    /\ Len(table_data) = 4

\* a step of bisection_method that completes an iteration (appends its record)
BisectionIterates ==
    /\ method = "bisection"
    /\ pc = "loop"
    /\ Len(table_data') = Len(table_data) + 1

\* C19: every completed bisection iteration narrows the bracket [a, b] by
\* the sign of f(a) * f(c) alone, c the midpoint: if it is negative the
\* record is labelled "1st subinterval", b becomes c and a stays; otherwise
\* (a zero product included) the record is labelled "2nd subinterval", a
\* becomes c and b stays.  The new width is half the old one, to within the
\* rounding of the midpoint (one unit of the last digit for twice the width).
C19_SingleTestNarrows ==
    [][BisectionIterates
       => LET c == Midpoint(loc.a, loc.b)
              rec == Last(table_data')
          IN  /\ IF Sgn(F(fn, loc.a)) * Sgn(F(fn, c)) < 0
                 THEN /\ rec.Remark = "1st subinterval"
                      /\ loc'.b = c
                      /\ loc'.a = loc.a
                 ELSE /\ rec.Remark = "2nd subinterval"
                      /\ loc'.a = c
                      /\ loc'.b = loc.b
              /\ Abs(2 * Abs(loc'.b - loc'.a) - Abs(loc.b - loc.a)) <= 1]_vars

\* an iteration with f(a) * f(c) = 0 has taken the second half
C19_Witness ==
    /\ method = "bisection"
    /\ Len(table_data) >= 2
    /\ Last(table_data).fxl # 0
    /\ Last(table_data).fxr = 0
    /\ Last(table_data).Remark = "2nd subinterval"
    /\ loc.a = Last(table_data).xr

\* bisection_method is about to run an iteration
BisectionIterationDue ==
    /\ method = "bisection"
    /\ pc = "loop"
    /\ loc.iteration <= arg.max_iter

\* the approximate error of the midpoint c is below tol, from iteration 2 on
AcceptableByError(c) ==
    /\ loc.iteration > 1
    /\ c # 0
    /\ LtRat(BisectionError(c, loc.x_old[1]), arg.tol)

\* C20 (as claimed): in every iteration, bisection_method accepts the
\* midpoint c (appends it as the single root and returns) if the approximate
\* error is below tol, which it cannot be at iteration 1, or if
\* |f(c)| < 1e-10, at any iteration; and otherwise, where the error is
\* defined, goes on without a root.
C20_AcceptsAtFirstPassingIteration ==
    [][BisectionIterationDue
       => LET c == Midpoint(loc.a, loc.b)
          IN  IF AcceptableByError(c) \/ LtEps(F(fn, c))
              THEN pc' = "done" /\ roots' = <<Round(c, 7)>>
              ELSE (c # 0 \/ loc.iteration = 1) => (pc' = "loop" /\ roots' = <<>>)]_vars

\* regula_falsi is about to look at subinterval i
SubintervalDue ==
    /\ method = "regula_falsi"
    /\ pc = "outer"
    /\ loc.i < arg.num_intervals

\* C21: regula_falsi takes the subintervals [a + i size, a + (i + 1) size],
\* size = (b - a) / num_intervals, for i = 0, 1, ... in this order; one with
\* f(x1) * f(x2) >= 0, a zero at an endpoint included, is passed over with no
\* record and no root, and any other is attempted with these very bounds.
C21_NoSignChangeIsSkipped ==
    [][SubintervalDue
       => LET x1 == arg.a + loc.i * RDiv(arg.b - arg.a, arg.num_intervals)
              x2 == x1 + RDiv(arg.b - arg.a, arg.num_intervals)
          IN  IF Sgn(F(fn, x1)) * Sgn(F(fn, x2)) >= 0
              THEN /\ table_data' = table_data
                   /\ roots' = roots
                   /\ pc' = "outer"
                   /\ loc'.i = loc.i + 1
              ELSE /\ table_data' = table_data
                   /\ roots' = roots
                   /\ pc' = "inner"
                   /\ loc'.i = loc.i
                   /\ loc'.x1 = x1 /\ loc'.left = x1
                   /\ loc'.x2 = x2 /\ loc'.right = x2]_vars

\* all ten subintervals of the default call are passed over, two of them for
\* the zero of f at their common endpoint 2
C21_Witness ==
    /\ method = "regula_falsi"
    /\ fn = "sq4"
    /\ arg = RegulaFalsiDefaultCall
    /\ pc = "done"
    /\ loc.i = 10
    /\ table_data = <<>>
    /\ roots = <<>>

\* regula_falsi is inside an attempted subinterval
InSubinterval == method = "regula_falsi" /\ pc = "inner"

\* the last n records of the trace
LastRecords(n) == [k \in 1..n |-> table_data[Len(table_data) - n + k]]

\* C22: in an attempted subinterval every iteration appends one record,
\* numbered from 1 in each subinterval and tagged with the subinterval's
\* bounds; the subinterval ends at the first iteration with |f(c)| < tol
\* (at most one root appended), or whose narrowed bracket is shorter than
\* tol (no root), or when max_iter iterations are done; so it never has more
\* than max_iter records.
C22_SubintervalTrace ==
    /\ [](InSubinterval
           => /\ loc.iteration <= arg.max_iter
              /\ Len(table_data) >= loc.iteration
              /\ \A k \in 1..loc.iteration :
                   /\ LastRecords(loc.iteration)[k].Iteration = k
                   /\ LastRecords(loc.iteration)[k].Subinterval
                        = <<Round(loc.x1, 2), Round(loc.x2, 2)>>)
    /\ [][InSubinterval
          => IF loc.iteration >= arg.max_iter
             THEN pc' = "outer" /\ table_data' = table_data /\ roots' = roots
             ELSE LET c == FalsePosition(loc.left, loc.right, loc.fl, loc.fr)
                      fc == F(fn, c)
                      toLeft == Sgn(loc.fl) * Sgn(fc) < 0
                      width == IF toLeft THEN Abs(c - loc.left) ELSE Abs(loc.right - c)
                  IN  /\ Len(table_data') = Len(table_data) + 1
                      /\ Last(table_data').Iteration = loc.iteration + 1
                      /\ Last(table_data').Subinterval
                           = <<Round(loc.x1, 2), Round(loc.x2, 2)>>
                      /\ IF LtRat(Abs(fc), arg.tol)
                         THEN /\ pc' = "outer"
                              /\ roots' \in {roots, Append(roots, Round(c, 6))}
                         ELSE /\ roots' = roots
                              /\ IF LtRat(width, arg.tol)
                                 THEN pc' = "outer"
                                 ELSE pc' = "inner" /\ loc'.iteration = loc.iteration + 1]_vars

\* a second attempted subinterval, numbered from 1 again, has ended on a root
\* candidate in its second or a later iteration
C22_Witness ==
    /\ method = "regula_falsi"
    /\ pc = "outer"
    /\ Len(table_data) >= 3
    /\ Last(table_data).Iteration >= 2
    /\ LtRat(Abs(F(fn, Last(table_data).c)), arg.tol)
    /\ \E k \in 2..Len(table_data) :
         /\ table_data[k].Iteration = 1
         /\ table_data[k].Subinterval # table_data[k - 1].Subinterval

\* the record of an iteration of newton_raphson stopped by the flat-derivative
\* guard (secant_method appends no record for its guard)
StallRecord(rec) == method = "newton_raphson" /\ rec.ea = None

\* C23: in newton_raphson and secant_method a record carries the marker
\* "Max iterations reached" exactly if it is the record of the max_iter-th
\* iteration and that iteration neither converged (no root was appended) nor
\* met the singularity guard; so a marked trace comes with an empty root
\* list.
C23_MarkerOnlyOnExhaustion ==
    method \in {"newton_raphson", "secant_method"}
    => \A k \in 1..Len(table_data) :
         HasMarker(table_data[k])
         <=> (k = arg.max_iter /\ roots = <<>> /\ ~StallRecord(table_data[k]))

C23_Witness ==
    /\ method = "newton_raphson"
    /\ pc = "done"
    /\ arg.max_iter >= 3
    /\ Len(table_data) = arg.max_iter
    /\ HasMarker(Last(table_data))
    /\ roots = <<>>

\* the sum of the gaps between consecutive crossing indices, and of their squares
GapSum == loc.zero_crossings[Len(loc.zero_crossings)] - loc.zero_crossings[1]
GapSquares ==
    SumSeq([k \in 1..(Len(loc.zero_crossings) - 1) |->
              (loc.zero_crossings[k + 1] - loc.zero_crossings[k])
                * (loc.zero_crossings[k + 1] - loc.zero_crossings[k])])

\* at least 5 crossings, and the standard deviation of the gaps below 0.1
\* times their mean: with n gaps, n * sum of squares - sum^2 < sum^2 / 100
FiveRegularCrossings ==
    /\ Len(loc.zero_crossings) >= 5
    /\ 100 * ((Len(loc.zero_crossings) - 1) * GapSquares - GapSum * GapSum)
         < GapSum * GapSum

\* C24: when graphical_method has returned, is_periodic is True exactly if
\* at least 5 crossing indices were collected with the standard deviation of
\* their gaps below 0.1 times the mean gap; then period is mean gap * step
\* (to the rounding of the two operations) and one record with x = "Period"
\* follows the records of the samples; otherwise period is None and the
\* records are those of the samples alone.
C24_PeriodicityVerdict ==
    (method = "graphical_method" /\ pc = "done")
    => /\ \A k \in 1..Len(loc.x_vals) : table_data[k].x = Round(loc.x_vals[k], 3)
       /\ IF FiveRegularCrossings
          THEN /\ loc.is_periodic
               /\ loc.period # None
               /\ Abs(loc.period[1]
                        - MulDiv(GapSum, arg.step, Len(loc.zero_crossings) - 1)) <= 2
               /\ Len(table_data) = Len(loc.x_vals) + 1
               /\ Last(table_data).x = "Period"
               /\ Last(table_data).fx = Round(loc.period[1], 6)
          ELSE /\ ~loc.is_periodic
               /\ loc.period = None
               /\ Len(table_data) = Len(loc.x_vals)

C24_Witness ==
    /\ method = "graphical_method"
    /\ pc = "done"
    /\ loc.is_periodic
    /\ Len(table_data) = Len(loc.x_vals) + 1

GraphicalScanning == method = "graphical_method" /\ pc \in {"loop", "done"}

\* the pairs of consecutive samples already compared whose product is <= 0,
\* named by the index i of the code (samples i-1 and i)
PairsAtOrAcrossZero ==
    {i \in 1..(loc.i - 1) : SgnMul(loc.y_vals[i], loc.y_vals[i + 1]) <= 0}

\* C25: graphical_method holds one root and one crossing index for every
\* compared pair of consecutive samples with y[i-1]*y[i] <= 0, in scan order
\* and without de-duplication; a sample that is exactly 0 at interior index i
\* with non-zero neighbours therefore gives the crossing indices i and i+1
\* and the same root, the grid point itself, twice.
C25_OneRootPerCrossingPair ==
    GraphicalScanning
    => /\ Len(roots) = Len(loc.zero_crossings)
       /\ Len(roots) = Cardinality(PairsAtOrAcrossZero)
       /\ \A j \in 1..Len(roots) :
             /\ loc.zero_crossings[j] \in PairsAtOrAcrossZero
             /\ j > 1 => loc.zero_crossings[j - 1] < loc.zero_crossings[j]
             /\ roots[j] = Round(Interpolate(loc.x_vals[loc.zero_crossings[j]],
                                             loc.y_vals[loc.zero_crossings[j]],
                                             loc.x_vals[loc.zero_crossings[j] + 1],
                                             loc.y_vals[loc.zero_crossings[j] + 1]), 6)
       /\ \A i \in 1..(loc.i - 2) :
             (loc.y_vals[i + 1] = 0 /\ loc.y_vals[i] # 0 /\ loc.y_vals[i + 2] # 0)
             => \E j \in 1..(Len(roots) - 1) :
                   /\ loc.zero_crossings[j] = i
                   /\ loc.zero_crossings[j + 1] = i + 1
                   /\ roots[j] = Round(loc.x_vals[i + 1], 6)
                   /\ roots[j + 1] = roots[j]

C25_Witness ==
    /\ method = "graphical_method"
    /\ pc = "done"
    /\ \E i \in 1..(loc.i - 2) :
          loc.y_vals[i + 1] = 0 /\ loc.y_vals[i] # 0 /\ loc.y_vals[i + 2] # 0
    /\ \E j \in 1..(Len(roots) - 1) :
          /\ roots[j + 1] = roots[j]
          /\ loc.zero_crossings[j + 1] = loc.zero_crossings[j] + 1

IncrementalScans == method = "incremental_search" /\ pc = "loop"

\* v lies between p and q, whichever of the two is the smaller
Between(v, p, q) == (p <= v /\ v <= q) \/ (q <= v /\ v <= p)

\* the root appended for the step at x, judged against the two values there
EstimateOfStep(root, x, step, fx, fx_next) ==
    /\ SgnMul(fx, fx_next) <= 0
    /\ IF LtEps(fx_next - fx)
       THEN Abs(2 * root - (2 * x + step)) <= 1
       ELSE 2 * Abs((x - root) * (fx_next - fx) - step * fx) <= Abs(fx_next - fx)
    /\ Between(root, x, x + step)

\* C26: a pass of incremental_search appends at most one root, and only when
\* both values of the step are finite with product <= 0 and the record of the
\* step carries the root-exists remark; the root is x - step*f(x)/(f(x+step)
\* - f(x)) rounded, or the midpoint when the denominator is below 1e-10, and
\* lies in the closed interval between x and x + step.
C26_RootInsideItsStep ==
    [][(IncrementalScans /\ roots' # roots)
       => /\ Len(roots') = Len(roots) + 1
          /\ SubSeq(roots', 1, Len(roots)) = roots
          /\ Len(table_data') = Len(table_data) + 1
          /\ Last(table_data').Remark = RemarkRoot
          /\ Last(table_data').xi = Round(loc.x, 3)
          /\ Eval(fn, loc.x, arg.numpy).k = "finite"
          /\ Eval(fn, loc.x + arg.step, arg.numpy).k = "finite"
          /\ EstimateOfStep(Last(roots'), loc.x, arg.step,
                            Eval(fn, loc.x, arg.numpy).v,
                            Eval(fn, loc.x + arg.step, arg.numpy).v)]_vars

\* a root beyond b, from the last step of a scan that ran to its end
C26_Witness ==
    /\ method = "incremental_search"
    /\ pc = "done"
    /\ arg.step > 0
    /\ roots # <<>>
    /\ Last(roots) > arg.b
    /\ Last(roots) <= arg.b + arg.step
    /\ Last(table_data).Remark = RemarkRoot

\* bisection_method got past its guard: it iterates, or has returned records
BisectionBracketing ==
    /\ method = "bisection"
    /\ pc = "loop" \/ (pc = "done" /\ table_data # <<>>)

\* C27: once bisection_method has passed its guard, the current bracket
\* satisfies f(a)*f(b) <= 0 after every narrowing step.
C27_BracketKeepsSignChange ==
    BisectionBracketing => SgnMul(F(fn, loc.a), F(fn, loc.b)) <= 0

\* C28: bisection_method never raises: every call that passes the sign guard
\* comes back with its (roots, records) pair, also when a midpoint computed
\* at iteration 2 or later is exactly 0.
C28_BisectionNeverRaises ==
    method = "bisection" => (pc # "raised" /\ exc = "none")

\* regula_falsi is about to take a false-position step in subinterval [x1, x2]
FalsePositionDue ==
    method = "regula_falsi" /\ pc = "inner" /\ loc.iteration < arg.max_iter

NewtonUpdates ==
    /\ method = "newton_raphson"
    /\ pc = "loop"
    /\ loc.iteration < arg.max_iter
    /\ ~FlatDerivative(DF(fn, loc.x))

\* x - f(x)/f'(x) at the current x
XNew == NewtonUpdate(loc.x, F(fn, loc.x), DF(fn, loc.x))

\* |x_new - x| / |x_new| < tol, with the quotient taken as 0 when x_new is 0
EaBelowTol == XNew = 0 \/ LtRat(Abs(FDiv(XNew - loc.x, XNew)), arg.tol)

\* C30: an iteration of newton_raphson appends round(x_new, 6) and stops
\* exactly when ea < tol, ea being |x_new - x| / |x_new|, or 0 when x_new is
\* 0; otherwise it goes on from x_new with no root. So an update landing on
\* x_new = 0 from x # 0 returns 0 as the root in that iteration, whatever
\* f(0) is.
C30_NewtonAcceptsOnRelativeError ==
    [][NewtonUpdates
       => /\ EaBelowTol
             => (roots' = Append(roots, Round(XNew, 6)) /\ pc' = "done")
          /\ ~EaBelowTol
             => (roots' = roots /\ pc' = "loop" /\ loc'.x = XNew)
          /\ (XNew = 0 /\ loc.x # 0)
             => (roots' = <<0>> /\ pc' = "done")]_vars

\* x^2 + 1 has no root: a run on it that landed on 0 and returned 0
C30_Witness ==
    /\ method = "newton_raphson"
    /\ pc = "done"
    /\ roots = <<0>>
    /\ loc.x # 0
    /\ NewtonUpdate(loc.x, F(fn, loc.x), DF(fn, loc.x)) = 0
    /\ F(fn, 0) # 0

====
